---- MODULE Spec2Model ----
(***************************************************************************)
(* Note-taking application (notes/models.py, notes/views.py,               *)
(* users/views.py): the Note and Reference tables, Note.save() with its    *)
(* random primary-key loop, and the class-based views for creating,        *)
(* viewing, editing, deleting and cloning Notes.                           *)
(*                                                                         *)
(* Spec         the views of notes/views.py, one request at a time, every  *)
(*              request handled as one step.                               *)
(* CascadeSpec  Spec with the User and Reference rows coming and going.    *)
(* ConcSpec     Note.save() of concurrent create requests, split at the    *)
(*              existence check and the insert.                            *)
(* LiveSpec     ConcSpec with a fair random generator.                     *)
(*                                                                         *)
(* Tags, timestamps (DateModel) and the view counter are not modelled.     *)
(***************************************************************************)
EXTENDS Integers, Sequences, FiniteSets, TLC

\* ---------------------------------------------------------------- bounds
\* Cap of a Note's clone counter.
MaxCount == 1

\* ---------------------------------------------------------------- domains
\* range(8): the number of characters Note.save() draws for an id.
IdLen == 8
Users == {"u1", "u2"}
Anonymous == "anon"
RefIds == {"r1"}
Procs == {"p1", "p2"}

\* What a submitted NoteForm carries; ok is the outcome of form validation.
\* The valid forms submitted: a public Note and a private one.
ValidForms ==
    { [title |-> "t1", content |-> "c1", is_public |-> TRUE, ok |-> TRUE],
      [title |-> "t2", content |-> "c2", is_public |-> FALSE, ok |-> TRUE] }
InvalidForm == [title |-> "", content |-> "", is_public |-> TRUE, ok |-> FALSE]
Forms == ValidForms \cup {InvalidForm}

\* ---------------------------------------------------------------- values
\* In-memory value of Note.id: None, an int read from the table, or the
\* string the loop has just assigned.
NoneId == [kind |-> "none", int |-> 0, str |-> <<>>]
IntId(n) == [kind |-> "int", int |-> n, str |-> <<>>]
StrId(s) == [kind |-> "str", int |-> 0, str |-> s]

\* int(s) for a string of decimal digits, as IntegerField prepares a value
\* for a lookup or a write.
RECURSIVE StrToInt(_)
StrToInt(s) ==
    IF Len(s) = 0 THEN 0
    ELSE 10 * StrToInt(SubSeq(s, 1, Len(s) - 1)) + s[Len(s)]

\* The strings ''.join(random.choice(string.digits) for _ in range(IdLen))
\* the generator is taken to draw: '00000000', '00000001' and '10000000'.
Draws ==
    { [i \in 1..IdLen |-> 0],
      [i \in 1..IdLen |-> IF i = IdLen THEN 1 ELSE 0],
      [i \in 1..IdLen |-> IF i = 1 THEN 1 ELSE 0] }

\* The primary key each drawn string stands for.
PkOf == [d \in Draws |-> StrToInt(d)]

\* Every primary key a drawn string can stand for.
Pks == {PkOf[d] : d \in Draws}

\* IntegerField.get_prep_value on an in-memory id.
ToPk(id) == IF id.kind = "str" THEN PkOf[id.str] ELSE id.int

\* Python truth value of self.id: None, 0 and '' are false.
Truthy(id) ==
    CASE id.kind = "none" -> FALSE
      [] id.kind = "int" -> id.int # 0
      [] id.kind = "str" -> Len(id.str) > 0

\* SearchVectorField values: NULL, or the vector of title and content.
NullVector == <<>>
SearchVector(title, content) == <<title, content>>

VARIABLES
    users,   \* the User table
    notes,   \* the Note table: primary key -> row
    refs,    \* the Reference table: rows [id, note]
    last,    \* the response to the request handled last
    pc,      \* ConcSpec: where each request is in Note.save()
    obj,     \* ConcSpec: the Note instance each request is saving
    id       \* ConcSpec: the local variable id of Note.save()

vars == <<users, notes, refs, last, pc, obj, id>>
db == <<users, notes, refs>>
conc == <<pc, obj, id>>

Response(view, status) == [view |-> view, status |-> status]

NoResponse == Response("none", "none")

\* ---------------------------------------------------------------- Note
\* A Note instance built by a ModelForm of a create view: no id yet,
\* document_vector at its default (null), counter at zero.
NewNote(user, form) ==
    [id |-> NoneId, user |-> user, title |-> form.title,
     content |-> form.content, is_public |-> form.is_public,
     document_vector |-> NullVector, clone_count |-> 0]

\* A Note instance read from the table.
Load(table, pk) ==
    [id |-> IntId(pk), user |-> table[pk].user, title |-> table[pk].title,
     content |-> table[pk].content, is_public |-> table[pk].is_public,
     document_vector |-> table[pk].document_vector,
     clone_count |-> table[pk].clone_count]

Row(o) ==
    [user |-> o.user, title |-> o.title, content |-> o.content,
     is_public |-> o.is_public, document_vector |-> o.document_vector,
     clone_count |-> o.clone_count]

\* The existence check with its `not` lost.
Exists_Negated(table, draw) == PkOf[draw] \notin DOMAIN table

\* Note.objects.filter(id=id).exists() for a drawn string.
Exists(table, draw) == PkOf[draw] \in DOMAIN table

\* `if not self.id`: save() enters the id loop.
NeedsId(o) == ~Truthy(o.id)

\* models.Model.save() with the primary key set: UPDATE the row with that
\* key, INSERT when no row was updated.
ModelSave(table, o) ==
    [k \in DOMAIN table \cup {ToPk(o.id)} |->
        IF k = ToPk(o.id) THEN Row(o) ELSE table[k]]

\* The instance as Note.save() hands it to models.Model.save(), where draw
\* is the string the loop left with.
WithId(o, draw) == IF NeedsId(o) THEN [o EXCEPT !.id = StrId(draw)] ELSE o

\* The loop leaves with draw: the first drawn string that no row has.
LoopExit(table, o, draw) == NeedsId(o) => ~Exists(table, draw)

\* Note.save() as a whole.
NoteSave(table, o, draw) == ModelSave(table, WithId(o, draw))

Init ==
    /\ users = Users
    /\ notes = <<>>
    /\ refs = {}
    /\ last = NoResponse
    /\ pc = [p \in Procs |-> "idle"]
    /\ obj = [p \in Procs |-> NewNote(Anonymous, InvalidForm)]
    /\ id = [p \in Procs |-> <<>>]

Requesters == users \cup {Anonymous}

\* NoteCreatorMixin: the request goes on only for the Note's owner.
NoteCreatorAllows(note, u) == note.user = u

\* NoteCreatorOrPublicMixin: the request goes on for the owner, and for
\* anyone when the Note is public.
NoteCreatorOrPublicAllows(note, u) == note.is_public \/ note.user = u

\* Note.increment_clone_count().
IncrementCloneCount(table, pk) ==
    [table EXCEPT ![pk].clone_count = @ + 1]

\* Reference.note declared with on_delete=DO_NOTHING.
CascadeReferences_DoNothing(rs, deleted) == rs

\* on_delete=CASCADE of Reference.note: the References of deleted Notes go.
CascadeReferences(rs, deleted) == {r \in rs : r.note \notin deleted}

\* on_delete=CASCADE of Note.user: the keys of the Notes of deleted Users.
NotesOfUsers(table, deleted) == {k \in DOMAIN table : table[k].user \in deleted}

\* QuerySet.delete() on the Note table.
DeleteRows(table, deleted) == [k \in DOMAIN table \ deleted |-> table[k]]

\* dispatch with the `not` before note.is_public lost.
CloneDenied_NoNot(note, u) == note.is_public /\ note.user # u

\* CloneNoteView.dispatch: the branch that redirects to the notes list.
CloneDenied(note, u) == ~note.is_public /\ note.user # u

\* ViewNoteView.get_template_names.
TemplateName(note, u) ==
    IF u = note.user THEN "view_note.html" ELSE "view_note_public.html"

\* The instance an UpdateView's ModelForm saves: the stored Note with the
\* form's fields written over it.
Edited(table, pk, form) ==
    [Load(table, pk) EXCEPT !.title = form.title, !.content = form.content,
                            !.is_public = form.is_public]

\* SignUp.form_valid: an anonymous visitor registers as u.
SignUp(u) ==
    /\ u \in Users \ users
    /\ users' = users \cup {u}
    /\ last' = NoResponse
    /\ UNCHANGED <<notes, refs, conc>>

\* Deletion of a User row; Note.user and Reference.note cascade.
DeleteUser(u) ==
    /\ u \in users
    /\ users' = users \ {u}
    /\ notes' = DeleteRows(notes, NotesOfUsers(notes, {u}))
    /\ refs' = CascadeReferences(refs, NotesOfUsers(notes, {u}))
    /\ last' = NoResponse
    /\ UNCHANGED conc

\* A Reference row is inserted; its foreign key names a stored Note.
AddReference(r, pk) ==
    /\ r \in RefIds \ {x.id : x \in refs}
    /\ pk \in DOMAIN notes
    /\ refs' = refs \cup {[id |-> r, note |-> pk]}
    /\ last' = NoResponse
    /\ UNCHANGED <<users, notes, conc>>

\* CreateNoteView: POST of the form by requester u.
CreateNoteView(u, form) ==
    /\ u \in Requesters
    /\ IF u = Anonymous
       THEN /\ last' = Response("create", "login")
            /\ UNCHANGED notes
       ELSE IF ~form.ok
       THEN /\ last' = Response("create", "form_invalid")
            /\ UNCHANGED notes
       ELSE \E draw \in Draws :
            /\ LoopExit(notes, NewNote(u, form), draw)
            /\ notes' = NoteSave(notes, NewNote(u, form), draw)
            /\ last' = Response("create", "saved")
    /\ UNCHANGED <<users, refs, conc>>

\* ViewNoteView declared without NoteCreatorOrPublicMixin.
ViewNoteView_NoMixin(u, pk) ==
    /\ u \in Requesters
    /\ IF pk \notin DOMAIN notes
       THEN last' = Response("view", "not_found")
       ELSE last' = Response("view", TemplateName(notes[pk], u))
    /\ UNCHANGED <<db, conc>>

\* ViewNoteView: GET of Note pk by requester u.
ViewNoteView(u, pk) ==
    /\ u \in Requesters
    /\ IF pk \notin DOMAIN notes
       THEN last' = Response("view", "not_found")
       ELSE IF NoteCreatorOrPublicAllows(notes[pk], u)
       THEN last' = Response("view", TemplateName(notes[pk], u))
       ELSE last' = Response("view", "redirect")
    /\ UNCHANGED <<db, conc>>

\* EditNoteView: POST of the form for Note pk by requester u.
EditNoteView(u, pk, form) ==
    /\ u \in Requesters
    /\ IF pk \notin DOMAIN notes
       THEN /\ last' = Response("edit", "not_found")
            /\ UNCHANGED notes
       ELSE IF ~NoteCreatorAllows(notes[pk], u)
       THEN /\ last' = Response("edit", "redirect")
            /\ UNCHANGED notes
       ELSE IF ~form.ok
       THEN /\ last' = Response("edit", "form_invalid")
            /\ UNCHANGED notes
       ELSE \E draw \in Draws :
            /\ LoopExit(notes, Edited(notes, pk, form), draw)
            /\ notes' = NoteSave(notes, Edited(notes, pk, form), draw)
            /\ last' = Response("edit", "saved")
    /\ UNCHANGED <<users, refs, conc>>

\* DeleteNoteView declared without NoteCreatorMixin.
DeleteNoteView_NoMixin(u, pk) ==
    /\ u \in Requesters
    /\ IF pk \notin DOMAIN notes
       THEN /\ last' = Response("delete", "not_found")
            /\ UNCHANGED <<notes, refs>>
       ELSE /\ notes' = DeleteRows(notes, {pk})
            /\ refs' = CascadeReferences(refs, {pk})
            /\ last' = Response("delete", "deleted")
    /\ UNCHANGED <<users, conc>>

\* DeleteNoteView: POST for Note pk by requester u.
DeleteNoteView(u, pk) ==
    /\ u \in Requesters
    /\ IF pk \notin DOMAIN notes
       THEN /\ last' = Response("delete", "not_found")
            /\ UNCHANGED <<notes, refs>>
       ELSE IF ~NoteCreatorAllows(notes[pk], u)
       THEN /\ last' = Response("delete", "redirect")
            /\ UNCHANGED <<notes, refs>>
       ELSE /\ notes' = DeleteRows(notes, {pk})
            /\ refs' = CascadeReferences(refs, {pk})
            /\ last' = Response("delete", "deleted")
    /\ UNCHANGED <<users, conc>>

\* form_valid without the call of increment_clone_count.
CloneFormValid_NoIncrement(table, pk, u, form, draw) ==
    NoteSave(table, NewNote(u, form), draw)

\* The Note table after CloneNoteView.form_valid: the source's counter is
\* incremented, then the form's new Note is saved.
CloneFormValid(table, pk, u, form, draw) ==
    NoteSave(IncrementCloneCount(table, pk), NewNote(u, form), draw)

\* CloneNoteView: POST of the form, cloning Note pk, by requester u.
CloneNoteView(u, pk, form) ==
    /\ u \in Requesters
    /\ IF pk \notin DOMAIN notes
       THEN /\ last' = Response("clone", "not_found")
            /\ UNCHANGED notes
       ELSE IF CloneDenied(notes[pk], u)
       THEN /\ last' = Response("clone", "redirect_notes")
            /\ UNCHANGED notes
       ELSE IF u = Anonymous
       THEN /\ last' = Response("clone", "login")
            /\ UNCHANGED notes
       ELSE IF ~form.ok
       THEN /\ last' = Response("clone", "form_invalid")
            /\ UNCHANGED notes
       ELSE \E draw \in Draws :
            /\ notes[pk].clone_count < MaxCount
            /\ LoopExit(notes, NewNote(u, form), draw)
            /\ notes' = CloneFormValid(notes, pk, u, form, draw)
            /\ last' = Response("clone", "saved")
    /\ UNCHANGED <<users, refs, conc>>

\* ------------------------------------------------- one request at a time
Next ==
    \/ \E u \in Users \cup {Anonymous}, form \in Forms : CreateNoteView(u, form)
    \/ \E u \in Users \cup {Anonymous}, pk \in Pks : ViewNoteView(u, pk)
    \/ \E u \in Users \cup {Anonymous}, pk \in Pks, form \in Forms :
          EditNoteView(u, pk, form)
    \/ \E u \in Users \cup {Anonymous}, pk \in Pks : DeleteNoteView(u, pk)
    \/ \E u \in Users \cup {Anonymous}, pk \in Pks, form \in Forms :
          CloneNoteView(u, pk, form)

Spec == Init /\ [][Next]_vars

CascadeNext ==
    \/ Next
    \/ \E u \in Users : SignUp(u)
    \/ \E u \in Users : DeleteUser(u)
    \/ \E r \in RefIds, pk \in Pks : AddReference(r, pk)

CascadeSpec == Init /\ [][CascadeNext]_vars

\* ------------------------------------------------- concurrent Note.save()
\* The user whose create request p serves.
UserOf(p) == IF p = "p1" THEN "u1" ELSE "u2"

\* A create request reaches Note.save() with the form's new Note.
SaveBegin(p, form) ==
    /\ pc[p] \in {"idle", "failed"}
    /\ obj' = [obj EXCEPT ![p] = NewNote(UserOf(p), form)]
    /\ id' = [id EXCEPT ![p] = <<>>]
    /\ pc' = [pc EXCEPT ![p] =
                IF NeedsId(NewNote(UserOf(p), form)) THEN "loop" ELSE "update"]
    /\ UNCHANGED <<db, last>>

\* One turn of the loop: draw a string, look it up, leave the loop and
\* assign self.id when no row has it.
SaveDraw(p, draw) ==
    /\ pc[p] = "loop"
    /\ id' = [id EXCEPT ![p] = draw]
    /\ IF Exists(notes, draw)
       THEN UNCHANGED <<pc, obj>>
       ELSE /\ pc' = [pc EXCEPT ![p] = "update"]
            /\ obj' = [obj EXCEPT ![p].id = StrId(draw)]
    /\ UNCHANGED <<db, last>>

\* super().save(), first statement: UPDATE the row with the instance's key.
\* The request returns when a row was updated, and goes on to the INSERT
\* when none was.
SaveUpdate(p) ==
    /\ pc[p] = "update"
    /\ IF ToPk(obj[p].id) \in DOMAIN notes
       THEN /\ notes' = ModelSave(notes, obj[p])
            /\ pc' = [pc EXCEPT ![p] = "idle"]
       ELSE /\ pc' = [pc EXCEPT ![p] = "insert"]
            /\ UNCHANGED notes
    /\ UNCHANGED <<users, refs, last, obj, id>>

\* super().save(), second statement: INSERT the row. The primary key is
\* unique: when a row with the key has appeared meanwhile the INSERT raises
\* IntegrityError and the request fails with nothing written.
SaveInsert(p) ==
    /\ pc[p] = "insert"
    /\ IF ToPk(obj[p].id) \in DOMAIN notes
       THEN /\ pc' = [pc EXCEPT ![p] = "failed"]
            /\ UNCHANGED notes
       ELSE /\ notes' = ModelSave(notes, obj[p])
            /\ pc' = [pc EXCEPT ![p] = "idle"]
    /\ UNCHANGED <<users, refs, last, obj, id>>

ConcNext ==
    \/ \E p \in Procs, form \in ValidForms : SaveBegin(p, form)
    \/ \E p \in Procs, draw \in Draws : SaveDraw(p, draw)
    \/ \E p \in Procs : SaveUpdate(p)
    \/ \E p \in Procs : SaveInsert(p)

ConcSpec == Init /\ [][ConcNext]_vars

\* The loop of p draws a string that leaves it.
DrawFree(p) == \E draw \in Draws : SaveDraw(p, draw) /\ pc'[p] # "loop"

\* The random generator is fair: a string that leaves the loop, drawable at
\* every turn, is drawn at some turn. A request past the loop goes on.
LiveSpec ==
    /\ Init
    /\ [][ConcNext]_vars
    /\ \A p \in Procs :
          WF_vars(DrawFree(p)) /\ WF_vars(SaveUpdate(p)) /\ WF_vars(SaveInsert(p))

\* ---------------------------------------------------------------- claims
AnyUser == Users \cup {Anonymous}

RECURSIVE Pow10(_)
Pow10(n) == IF n = 0 THEN 1 ELSE 10 * Pow10(n - 1)

\* k is written with exactly IdLen decimal digits.
IsIdLenDigitNumber(k) == Pow10(IdLen - 1) <= k /\ k < Pow10(IdLen)

\* C1: when a create request saves its Note, which has no id, the table
\* gains exactly one row, under a key that is an 8-digit number and that no
\* row had before, whatever string the generator drew.
C1_SaveAssignsUniqueEightDigitId ==
    [][\A u \in Users, form \in ValidForms :
          (last'.view = "create" /\ CreateNoteView(u, form)) =>
             \E k \in DOMAIN notes' \ DOMAIN notes :
                /\ DOMAIN notes' = DOMAIN notes \cup {k}
                /\ IsIdLenDigitNumber(k)]_vars

\* C2: saving a stored Note again keeps its id: the edit writes the row of
\* the Note's key and the table holds the same keys as before, so no second
\* row appears for the Note.
C2_LaterSaveKeepsId ==
    [][\A u \in Users, pk \in DOMAIN notes, form \in ValidForms :
          (last'.view = "edit" /\ notes[pk].user = u /\ EditNoteView(u, pk, form)) =>
             /\ DOMAIN notes' = DOMAIN notes
             /\ notes'[pk].title = form.title]_vars

\* The response renders the Note with one of ViewNoteView's templates.
Rendered(response) ==
    response.status \in {"view_note.html", "view_note_public.html"}

\* C3: ViewNoteView renders a Note exactly when it is public or the
\* requester is its owner; a private Note requested by anyone else (another
\* user or an anonymous visitor) is never rendered.
C3_PrivateNoteNotViewable ==
    [][\A u \in AnyUser, pk \in DOMAIN notes :
          (last'.view = "view" /\ ViewNoteView(u, pk)) =>
             (Rendered(last') <=> (notes[pk].is_public \/ notes[pk].user = u))]_vars

C3_Witness ==
    /\ last = Response("view", "redirect")
    /\ \E pk \in DOMAIN notes : ~notes[pk].is_public

C5_CloneDeniedUnchanged ==
    [][\A u \in AnyUser, pk \in DOMAIN notes, form \in Forms :
          (last'.view = "clone" /\ ~notes[pk].is_public /\ notes[pk].user # u
             /\ CloneNoteView(u, pk, form)) =>
             /\ last'.status = "redirect_notes"
             /\ UNCHANGED db]_vars

C5_Witness ==
    /\ last = Response("clone", "redirect_notes")
    /\ \E pk \in DOMAIN notes : ~notes[pk].is_public

\* C6: an edit or delete request by anyone but the Note's owner leaves the
\* Note stored with every field as it was, public or private.
C6_OnlyOwnerEditsOrDeletes ==
    [][\A u \in AnyUser, pk \in DOMAIN notes, form \in Forms :
          (last'.view \in {"edit", "delete"} /\ notes[pk].user # u
             /\ (EditNoteView(u, pk, form) \/ DeleteNoteView(u, pk))) =>
             /\ pk \in DOMAIN notes'
             /\ notes'[pk] = notes[pk]]_vars

C6_Witness ==
    /\ last \in {Response("edit", "redirect"), Response("delete", "redirect")}
    /\ notes # <<>>

\* C7: every stored Reference names a stored Note.
C7_ReferenceHasNote == \A r \in refs : r.note \in DOMAIN notes

C7_Witness ==
    /\ last = Response("delete", "deleted")
    /\ refs # {}

\* C8: every stored Note's document_vector is the vector of its stored
\* title and content.
C8_VectorInSync ==
    \A k \in DOMAIN notes :
        notes[k].document_vector = SearchVector(notes[k].title, notes[k].content)

\* The create request of p has left Note.save(), returning or failing.
Left(p) == pc[p] \in {"idle", "failed"} /\ obj[p].id.kind = "str"

\* C9: two create requests that have both left Note.save() have both
\* stored their Notes, under distinct keys, each row holding the Note its
\* request saved.
C9_ConcurrentSavesDistinct ==
    \A p \in Procs, q \in Procs :
        (p # q /\ Left(p) /\ Left(q)) =>
            /\ pc[p] = "idle"
            /\ ToPk(obj[p].id) # ToPk(obj[q].id)
            /\ ToPk(obj[p].id) \in DOMAIN notes
            /\ notes[ToPk(obj[p].id)] = Row(obj[p])

\* Some string the generator can draw is the key of no row.
FreeIdExists == \E draw \in Draws : PkOf[draw] \notin DOMAIN notes

====
